---- MODULE Spec2Model ----
(***************************************************************************)
(* The CHIP-8 core of chip8_rust (chip8/src/chip8.rs): the machine state   *)
(* of struct Chip8, its constructor, execute_instruction with every arm of *)
(* its opcode match, and the mutators the driver calls (set_key,           *)
(* decrement_delay, sound_tick).                                           *)
(*                                                                         *)
(* A Rust panic (an index out of bounds, an arithmetic overflow in a build *)
(* with overflow checks, the default arm's panic!) stops the call where it *)
(* happens: the fields keep what the call had written up to that point and *)
(* the variable fault names the panic.  No operation runs on a machine     *)
(* whose call panicked.                                                    *)
(***************************************************************************)
EXTENDS Integers, Sequences, FiniteSets, TLC

(***************************************************************************)
(* Program constants.                                                      *)
(***************************************************************************)
MemorySize == 4096
NumRegisters == 16
StackSize == 16
NumKeys == 16
SCREEN_WIDTH == 64
SCREEN_HEIGHT == 32
GfxSize == SCREEN_WIDTH * SCREEN_HEIGHT
GAME_ROM_OFFSET == 512
U8 == 256
U16 == 65536

FONTSET ==
  << 240, 144, 144, 144, 240,
      32,  96,  32,  32, 112,
     240,  16, 240, 128, 240,
     240,  16, 240,  16, 240,
     144, 144, 240,  16,  16,
     240, 128, 240,  16, 240,
     240, 128, 240, 144, 240,
     240,  16,  32,  64,  64,
     240, 144, 240, 144, 240,
     240, 144, 240,  16, 240,
     240, 144, 240, 144, 144,
     224, 144, 224, 144, 224,
     240, 128, 128, 128, 240,
     224, 144, 144, 144, 224,
     240, 128, 240, 128, 240,
     240, 128, 240, 128, 128 >>

VARIABLES
  memory,    \* memory: [u8; 4096]
  V,         \* the 16 general purpose registers
  I,         \* the pointer register
  PC,        \* the program counter
  delay,     \* the delay timer
  sound,     \* the sound timer
  SP,        \* the stack pointer
  stack,     \* the 16 value stack
  gfx,       \* gfx: [u8; SCREEN_WIDTH * SCREEN_HEIGHT]
  keyboard,  \* keyboard: [bool; 16]
  fault,     \* "none", or the panic that ended the last call
  tone       \* the driver's audio device is playing (sound_tick's last answer)

vars == <<memory, V, I, PC, delay, sound, SP, stack, gfx, keyboard, fault, tone>>

(***************************************************************************)
(* Integer helpers: Rust's u8 / u16 operators.                             *)
(***************************************************************************)
Bit(v, k) == (v \div (2 ^ k)) % 2

RECURSIVE BitAnd(_, _)
BitAnd(a, b) ==
  IF a = 0 \/ b = 0 THEN 0
  ELSE (a % 2) * (b % 2) + 2 * BitAnd(a \div 2, b \div 2)

RECURSIVE BitOr(_, _)
BitOr(a, b) ==
  IF a = 0 THEN b
  ELSE IF b = 0 THEN a
  ELSE (IF a % 2 = 1 \/ b % 2 = 1 THEN 1 ELSE 0) + 2 * BitOr(a \div 2, b \div 2)

RECURSIVE BitXor(_, _)
BitXor(a, b) ==
  IF a = 0 THEN b
  ELSE IF b = 0 THEN a
  ELSE ((a + b) % 2) + 2 * BitXor(a \div 2, b \div 2)

\* u8::overflowing_add / u8::overflowing_sub / u16::overflowing_add:
\* <<wrapped result, overflowed?>>
OverflowingAddU8(a, b) == <<(a + b) % U8, a + b >= U8>>
OverflowingSubU8(a, b) == <<(a - b + U8) % U8, a < b>>
OverflowingAddU16(a, b) == <<(a + b) % U16, a + b >= U16>>
BoolAsU8(b) == IF b THEN 1 ELSE 0

(***************************************************************************)
(* memory ([u8; 4096]) and gfx ([u8; 2048]) are kept as the finite map of  *)
(* their cells that are not zero: a cell outside the map's domain holds 0. *)
(* The arrays' lengths are MemorySize and GfxSize, which every index is    *)
(* compared with where the code indexes.                                   *)
(***************************************************************************)
ArrayGet(arr, i) == IF i \in DOMAIN arr THEN arr[i] ELSE 0
ArraySet(arr, i, v) ==
  IF v = 0 THEN [j \in DOMAIN arr \ {i} |-> arr[j]]
  ELSE (i :> v) @@ arr
ZeroArray == [i \in {} |-> 0]

\* The four nibbles of an instruction word, and a word from its nibbles.
Nibbles(instruction) ==
  << (instruction \div 4096) % 16,
     (instruction \div 256) % 16,
     (instruction \div 16) % 16,
     instruction % 16 >>
Word(a, b, c, d) == a * 4096 + b * 256 + c * 16 + d
Bytes(w) == << w \div 256, w % 256 >>


(***************************************************************************)
(* The machine as one record, for the operators below that compute what a  *)
(* call makes of it.                                                       *)
(***************************************************************************)
Machine ==
  [ memory |-> memory, V |-> V, I |-> I, PC |-> PC, delay |-> delay,
    sound |-> sound, SP |-> SP, stack |-> stack, gfx |-> gfx,
    keyboard |-> keyboard, fault |-> fault ]

\* A panic: the call ends here, the fields keep what was written so far.
\* kind is "decode" (the default arm), "memory", "stack" or "keyboard" (an
\* index out of the array's bounds) or "overflow" (checked arithmetic).
Panic(m, kind) == [m EXCEPT !.fault = kind]

\* Chip8::new
New(game) ==
  [ memory |-> LET Byte(a) ==
                     IF a < Len(FONTSET) THEN FONTSET[a + 1]
                     ELSE game[a - GAME_ROM_OFFSET + 1]
                   copied ==
                     (0 .. Len(FONTSET) - 1) \cup
                       (GAME_ROM_OFFSET .. GAME_ROM_OFFSET + Len(game) - 1)
               IN  [a \in {b \in copied : Byte(b) # 0} |-> Byte(a)],
    V |-> [r \in 0 .. NumRegisters - 1 |-> 0],
    I |-> 0,
    PC |-> GAME_ROM_OFFSET,
    delay |-> 0,
    sound |-> 0,
    SP |-> 0,
    stack |-> [s \in 0 .. StackSize - 1 |-> 0],
    gfx |-> ZeroArray,
    keyboard |-> [k \in 0 .. NumKeys - 1 |-> FALSE],
    fault |-> "none" ]

\* Chip8::push_stack
push_stack(m, val) ==
  IF m.SP >= StackSize THEN Panic(m, "stack")
  ELSE [m EXCEPT !.stack[m.SP] = val, !.SP = m.SP + 1]

\* Chip8::pop_stack: the machine after it; the value popped is stack[SP].
\* SP -= 1 on SP = 0 panics in a build with overflow checks (oc) and wraps
\* to 255 in one without, where the index that follows panics.
pop_stack(m, oc) ==
  IF m.SP = 0 /\ oc THEN Panic(m, "overflow")
  ELSE LET m1 == [m EXCEPT !.SP = (m.SP - 1 + U8) % U8]
       IN  IF m1.SP >= StackSize THEN Panic(m1, "stack") ELSE m1

\* Chip8::key_pressed indexes keyboard[key]: a key of 16 or more panics.
KeyInRange(key) == key < NumKeys
key_pressed(m, key) == m.keyboard[key]

(***************************************************************************)
(* The arms of execute_instruction's match.  m is the machine after the    *)
(* fetch and PC += 2.                                                      *)
(***************************************************************************)
Cls(m) == [m EXCEPT !.gfx = ZeroArray]

Ret(m, oc) ==
  LET m1 == pop_stack(m, oc)
  IN  IF m1.fault # "none" THEN m1 ELSE [m1 EXCEPT !.PC = m1.stack[m1.SP]]

Jmp(m, nnn) == [m EXCEPT !.PC = nnn]

\* CALL that pushes the address of the CALL itself.
Call_PushesCallAddress(m, nnn) ==
  LET m1 == push_stack(m, m.PC - 2)
  IN  IF m1.fault # "none" THEN m1 ELSE [m1 EXCEPT !.PC = nnn]

Call(m, nnn) ==
  LET m1 == push_stack(m, m.PC)
  IN  IF m1.fault # "none" THEN m1 ELSE [m1 EXCEPT !.PC = nnn]

\* PC += 2 of a skip: PC is at most MemorySize here, the sum fits a u16.
Skip(m, cond) == IF cond THEN [m EXCEPT !.PC = m.PC + 2] ELSE m

SeVxByte(m, x, kk) == Skip(m, m.V[x] = kk)
SneVxByte(m, x, kk) == Skip(m, m.V[x] # kk)
SeVxVy(m, x, y) == Skip(m, m.V[x] = m.V[y])
SneVxVy(m, x, y) == Skip(m, m.V[x] # m.V[y])

LdVxByte(m, x, kk) == [m EXCEPT !.V[x] = kk]
AddVxByte(m, x, kk) == [m EXCEPT !.V[x] = (m.V[x] + kk) % U8]

LdVxVy(m, x, y) == [m EXCEPT !.V[x] = m.V[y]]
OrVxVy(m, x, y) == [m EXCEPT !.V[x] = BitOr(m.V[x], m.V[y])]
AndVxVy(m, x, y) == [m EXCEPT !.V[x] = BitAnd(m.V[x], m.V[y])]
XorVxVy(m, x, y) == [m EXCEPT !.V[x] = BitXor(m.V[x], m.V[y])]

\* V[x] = res, then V[0xF] = carry as u8: two writes, the flag last.
SetResultAndFlag(m, x, rc) ==
  LET m1 == [m EXCEPT !.V[x] = rc[1]]
  IN  [m1 EXCEPT !.V[15] = BoolAsU8(rc[2])]

\* ADD Vx, Vy that writes the flag before the result.
AddVxVy_FlagFirst(m, x, y) ==
  LET rc == OverflowingAddU8(m.V[x], m.V[y])
      m1 == [m EXCEPT !.V[15] = BoolAsU8(rc[2])]
  IN  [m1 EXCEPT !.V[x] = rc[1]]

AddVxVy(m, x, y) == SetResultAndFlag(m, x, OverflowingAddU8(m.V[x], m.V[y]))
SubVxVy(m, x, y) == SetResultAndFlag(m, x, OverflowingSubU8(m.V[x], m.V[y]))
SubnVxVy(m, x, y) == SetResultAndFlag(m, x, OverflowingSubU8(m.V[y], m.V[x]))

\* The flag is written first, then V[x] from V[y] as it is after that write.
ShrVxVy(m, x, y) ==
  LET m1 == [m EXCEPT !.V[15] = IF BitAnd(m.V[y], 1) # 0 THEN 1 ELSE 0]
  IN  [m1 EXCEPT !.V[x] = m1.V[y] \div 2]

ShlVxVy(m, x, y) ==
  LET m1 == [m EXCEPT !.V[15] = IF BitAnd(m.V[y], 128) # 0 THEN 1 ELSE 0]
  IN  [m1 EXCEPT !.V[x] = (m1.V[y] * 2) % U8]

LdI(m, nnn) == [m EXCEPT !.I = nnn]
JpV0(m, nnn) == [m EXCEPT !.PC = nnn + m.V[0]]
Rnd(m, x, kk, r) == [m EXCEPT !.V[x] = BitAnd(kk, r)]

\* DRW, the inner loop: the bits xl .. 7 of one sprite row, most significant
\* first, at the origin (x, y) read from the registers.
RECURSIVE DrwRow(_, _, _, _, _, _)
\* An inner loop that adds the sprite bit to the cell instead of XORing it.
RECURSIVE DrwRow_Adds(_, _, _, _, _, _)
DrwRow_Adds(m, x, y, yl, pixels, xl) ==
  IF xl >= 8 THEN m
  ELSE IF BitAnd(pixels, 128 \div (2 ^ xl)) # 0
       THEN LET index == x + xl + ((y + yl) * 64)
                cell == index % 2048
                m1 == IF ArrayGet(m.gfx, cell) = 1 THEN [m EXCEPT !.V[15] = 1] ELSE m
            IN  DrwRow_Adds([m1 EXCEPT !.gfx = ArraySet(@, cell, ArrayGet(@, cell) + 1)],
                            x, y, yl, pixels, xl + 1)
       ELSE DrwRow_Adds(m, x, y, yl, pixels, xl + 1)

DrwRow(m, x, y, yl, pixels, xl) ==
  IF xl >= 8 THEN m
  ELSE IF BitAnd(pixels, 128 \div (2 ^ xl)) # 0
       THEN LET index == x + xl + ((y + yl) * 64)
                cell == index % 2048
                m1 == IF ArrayGet(m.gfx, cell) = 1 THEN [m EXCEPT !.V[15] = 1] ELSE m
            IN  DrwRow([m1 EXCEPT !.gfx = ArraySet(@, cell, BitXor(ArrayGet(@, cell), 1))],
                       x, y, yl, pixels, xl + 1)
       ELSE DrwRow(m, x, y, yl, pixels, xl + 1)

\* DRW, the outer loop: the rows yl .. n-1.  self.I + yl is a u16 sum: it
\* panics on overflow in a build with overflow checks and wraps in one
\* without; the memory index panics past the last byte.
RECURSIVE DrwRows(_, _, _, _, _, _)
DrwRows(m, x, y, n, yl, oc) ==
  IF yl >= n THEN m
  ELSE IF m.I + yl >= U16 /\ oc THEN Panic(m, "overflow")
  ELSE LET addr == (m.I + yl) % U16
       IN  IF addr >= MemorySize THEN Panic(m, "memory")
           ELSE DrwRows(DrwRow(m, x, y, yl, ArrayGet(m.memory, addr), 0),
                        x, y, n, yl + 1, oc)

\* DRW that does not clear the collision flag first.
Drw_NoClear(m, x, y, n, oc) == DrwRows(m, m.V[x], m.V[y], n, 0, oc)

\* DRW Vx, Vy, nibble: the flag is cleared before the origin is read.
Drw(m, x, y, n, oc) ==
  LET m1 == [m EXCEPT !.V[15] = 0]
  IN  DrwRows(m1, m1.V[x], m1.V[y], n, 0, oc)

Skp(m, x) ==
  IF ~KeyInRange(m.V[x]) THEN Panic(m, "keyboard")
  ELSE Skip(m, key_pressed(m, m.V[x]))

Sknp(m, x) ==
  IF ~KeyInRange(m.V[x]) THEN Panic(m, "keyboard")
  ELSE Skip(m, ~key_pressed(m, m.V[x]))

LdVxDt(m, x) == [m EXCEPT !.V[x] = m.delay]

\* LD Vx, K: the loop over the keys i .. 15; it has no break.
RECURSIVE LdVxKScan(_, _, _, _)
LdVxKScan(m, x, i, pressed) ==
  IF i >= 16 THEN <<m, pressed>>
  ELSE IF key_pressed(m, i)
       THEN LdVxKScan([m EXCEPT !.V[x] = i], x, i + 1, TRUE)
       ELSE LdVxKScan(m, x, i + 1, pressed)

\* LD Vx, K without the PC -= 2 of the stall.
LdVxK_NoRewind(m, x) == LdVxKScan(m, x, 0, FALSE)[1]

\* LD Vx, K that rewinds PC whether a key was found or not.
LdVxK_AlwaysRewinds(m, x) ==
  LET r == LdVxKScan(m, x, 0, FALSE)
  IN  [r[1] EXCEPT !.PC = r[1].PC - 2]

LdVxK(m, x) ==
  LET r == LdVxKScan(m, x, 0, FALSE)
  IN  IF ~r[2] THEN [r[1] EXCEPT !.PC = r[1].PC - 2] ELSE r[1]

LdDtVx(m, x) == [m EXCEPT !.delay = m.V[x]]
\* LD ST, Vx that writes the delay timer.
LdStVx_SetsDelay(m, x) == [m EXCEPT !.delay = m.V[x]]

LdStVx(m, x) == [m EXCEPT !.sound = m.V[x]]

AddIVx(m, x) ==
  LET rc == OverflowingAddU16(m.I, m.V[x])
      m1 == [m EXCEPT !.I = rc[1]]
  IN  [m1 EXCEPT !.V[15] = BoolAsU8(rc[2])]

\* LD F, Vx: the product is a u8 product, cast to u16 afterwards.
LdFVx(m, x, oc) ==
  IF m.V[x] * 5 >= U8 /\ oc THEN Panic(m, "overflow")
  ELSE [m EXCEPT !.I = (m.V[x] * 5) % U8]

\* One indexed store memory[addr] = val.
Store(m, addr, val) ==
  IF m.fault # "none" THEN m
  ELSE IF addr >= MemorySize THEN Panic(m, "memory")
  ELSE [m EXCEPT !.memory = ArraySet(@, addr, val)]

\* A conversion whose tens digit is not reduced modulo 10.
LdBVx_TensNotReduced(m, x) ==
  LET vx == m.V[x]
  IN  Store(Store(Store(m, m.I, vx \div 100), m.I + 1, vx \div 10),
            m.I + 2, vx % 10)

\* LD B, Vx: three stores, in order.
LdBVx(m, x) ==
  LET vx == m.V[x]
  IN  Store(Store(Store(m, m.I, vx \div 100), m.I + 1, (vx \div 10) % 10),
            m.I + 2, vx % 10)

\* LD [I], Vx: the registers i .. x, then I += x + 1 (I + x is an address
\* inside memory by then, the sum fits a u16).
RECURSIVE LdIVxLoop(_, _, _)
LdIVxLoop(m, x, i) ==
  IF i > x THEN [m EXCEPT !.I = m.I + x + 1]
  ELSE IF m.I + i >= MemorySize THEN Panic(m, "memory")
  ELSE LdIVxLoop([m EXCEPT !.memory = ArraySet(@, m.I + i, m.V[i])], x, i + 1)

\* A store of the registers that leaves I where it was.
LdIVx_KeepsI(m, x) ==
  LET m1 == LdIVxLoop(m, x, 0)
  IN  IF m1.fault = "none" THEN [m1 EXCEPT !.I = m.I] ELSE m1

LdIVx(m, x) == LdIVxLoop(m, x, 0)

\* LD Vx, [I]
RECURSIVE LdVxILoop(_, _, _)
LdVxILoop(m, x, i) ==
  IF i > x THEN [m EXCEPT !.I = m.I + x + 1]
  ELSE IF m.I + i >= MemorySize THEN Panic(m, "memory")
  ELSE LdVxILoop([m EXCEPT !.V[i] = ArrayGet(m.memory, m.I + i)], x, i + 1)

LdVxI(m, x) == LdVxILoop(m, x, 0)

\* A default arm that ignores the instruction.
InvalidInstruction_Ignored(m) == m

\* The default arm: panic!("Invalid instruction ...").
InvalidInstruction(m) == Panic(m, "decode")

\* The match of execute_instruction on the nibble tuple.
Dispatch(m, instruction, r, oc) ==
  LET op == Nibbles(instruction)
      x == op[2]
      y == op[3]
      n == op[4]
      nnn == instruction % 4096
      kk == instruction % 256
  IN  CASE op = <<0, 0, 14, 0>> -> Cls(m)
        [] op = <<0, 0, 14, 14>> -> Ret(m, oc)
        [] op[1] = 1 -> Jmp(m, nnn)
        [] op[1] = 2 -> Call(m, nnn)
        [] op[1] = 3 -> SeVxByte(m, x, kk)
        [] op[1] = 4 -> SneVxByte(m, x, kk)
        [] op[1] = 5 /\ n = 0 -> SeVxVy(m, x, y)
        [] op[1] = 6 -> LdVxByte(m, x, kk)
        [] op[1] = 7 -> AddVxByte(m, x, kk)
        [] op[1] = 8 /\ n = 0 -> LdVxVy(m, x, y)
        [] op[1] = 8 /\ n = 1 -> OrVxVy(m, x, y)
        [] op[1] = 8 /\ n = 2 -> AndVxVy(m, x, y)
        [] op[1] = 8 /\ n = 3 -> XorVxVy(m, x, y)
        [] op[1] = 8 /\ n = 4 -> AddVxVy(m, x, y)
        [] op[1] = 8 /\ n = 5 -> SubVxVy(m, x, y)
        [] op[1] = 8 /\ n = 6 -> ShrVxVy(m, x, y)
        [] op[1] = 8 /\ n = 7 -> SubnVxVy(m, x, y)
        [] op[1] = 8 /\ n = 14 -> ShlVxVy(m, x, y)
        [] op[1] = 9 /\ n = 0 -> SneVxVy(m, x, y)
        [] op[1] = 10 -> LdI(m, nnn)
        [] op[1] = 11 -> JpV0(m, nnn)
        [] op[1] = 12 -> Rnd(m, x, kk, r)
        [] op[1] = 13 -> Drw(m, x, y, n, oc)
        [] op[1] = 14 /\ y = 9 /\ n = 14 -> Skp(m, x)
        [] op[1] = 14 /\ y = 10 /\ n = 1 -> Sknp(m, x)
        [] op[1] = 15 /\ y = 0 /\ n = 7 -> LdVxDt(m, x)
        [] op[1] = 15 /\ y = 0 /\ n = 10 -> LdVxK(m, x)
        [] op[1] = 15 /\ y = 1 /\ n = 5 -> LdDtVx(m, x)
        [] op[1] = 15 /\ y = 1 /\ n = 8 -> LdStVx(m, x)
        [] op[1] = 15 /\ y = 1 /\ n = 14 -> AddIVx(m, x)
        [] op[1] = 15 /\ y = 2 /\ n = 9 -> LdFVx(m, x, oc)
        [] op[1] = 15 /\ y = 3 /\ n = 3 -> LdBVx(m, x)
        [] op[1] = 15 /\ y = 5 /\ n = 5 -> LdIVx(m, x)
        [] op[1] = 15 /\ y = 6 /\ n = 5 -> LdVxI(m, x)
        [] OTHER -> InvalidInstruction(m)

\* The instruction word at PC, when both of its bytes are inside memory.
FetchInRange(m) == m.PC + 1 < MemorySize
Fetch(m) == ArrayGet(m.memory, m.PC) * 256 + ArrayGet(m.memory, m.PC + 1)

\* Chip8::execute_instruction: r is the byte the random source would give,
\* oc whether the build checks arithmetic overflow.
execute_instruction(m, r, oc) ==
  IF ~FetchInRange(m) THEN Panic(m, "memory")
  ELSE Dispatch([m EXCEPT !.PC = m.PC + 2], Fetch(m), r, oc)

\* A set_key that indexes the key array without the range check.
set_key_Unchecked(m, key, state) ==
  IF key < NumKeys THEN [m EXCEPT !.keyboard[key] = state]
  ELSE Panic(m, "keyboard")

\* Chip8::set_key
set_key(m, key, state) ==
  IF key < 16 THEN [m EXCEPT !.keyboard[key] = state] ELSE m

\* Chip8::decrement_delay
decrement_delay(m) ==
  IF m.delay > 0 THEN [m EXCEPT !.delay = m.delay - 1] ELSE m

\* A sound_tick that decrements without looking at the timer.
sound_tick_Unguarded(m) ==
  <<[m EXCEPT !.sound = (m.sound + U8 - 1) % U8], TRUE>>

\* Chip8::sound_tick: <<the machine after it, the value returned>>
sound_tick(m) ==
  IF m.sound > 0 THEN <<[m EXCEPT !.sound = m.sound - 1], TRUE>>
  ELSE <<m, FALSE>>

\* Chip8::get_pixel
get_pixel(m, x, y) == ArrayGet(m.gfx, y * SCREEN_WIDTH + x) # 0


(***************************************************************************)
(* The inputs: the program images the machine is constructed from, the     *)
(* keys the driver sets, the bytes the random source gives.                *)
(***************************************************************************)
MaxRows == 2
MaxBlock == 1
MaxTimer == 3

RegSamples == {0, 1, 15}
ByteSamples == {0, 1, 128, 255}
KeySamples == {0, 7, 15, 16}
RandSamples == {0, 165, 255}
SpriteSamples == {<<0, 0>>, <<255, 0>>, <<129, 255>>, <<255, 255>>}
OriginXSamples == {0, 60, 255}
OriginYSamples == {0, 31}
AddrSamples == {512, 768, 4093, 4094, 4095}

\* The bytes of a program given as a sequence of instruction words.
RECURSIVE Image(_)
Image(ws) == IF ws = <<>> THEN <<>> ELSE Bytes(Head(ws)) \o Image(Tail(ws))

\* LD Vx, a; LD Vy, b; <8xy op>
AluGames ==
  { Image(<<Word(6, x, 0, 0) + a, Word(6, y, 0, 0) + b, Word(8, x, y, op)>>) :
      x \in RegSamples, y \in RegSamples, a \in ByteSamples, b \in ByteSamples,
      op \in {4, 5, 7} }

\* LD Vy, b; <SHR | SHL> Vx, Vy
ShiftGames ==
  { Image(<<Word(6, y, 0, 0) + b, Word(8, x, y, op)>>) :
      x \in RegSamples, y \in RegSamples, b \in ByteSamples, op \in {6, 14} }

\* LD Vx, 0xAA; LD Vx, K; JP 0x202
KeyGames ==
  { Image(<<Word(6, x, 10, 10), Word(15, x, 0, 10), Word(1, 2, 0, 2)>>) :
      x \in RegSamples }

\* LD Vx, ox; LD V1, oy; DRW Vx, V1, p (a font glyph, I = 0); LD I, 0x20C;
\* DRW Vx, V1, n; DRW Vx, V1, n; then the sprite's two rows at 0x20C.
DrawGames ==
  { Image(<<Word(6, x, 0, 0) + ox, Word(6, 1, 0, 0) + oy, Word(13, x, 1, p),
            Word(10, 2, 0, 12), Word(13, x, 1, n), Word(13, x, 1, n)>>)
      \o rows :
      x \in {0, 15}, ox \in OriginXSamples, oy \in OriginYSamples, p \in {0, 5},
      n \in 0 .. MaxRows, rows \in SpriteSamples }

\* LD V0, a; LD V1, 9; LD I, addr; <Fx33 | Fx55 | Fx65>
BlockGames ==
  { Image(<<Word(6, 0, 0, 0) + a, Word(6, 1, 0, 9), Word(10, 0, 0, 0) + addr,
            Word(15, x, yn[1], yn[2])>>) :
      a \in {7, 157, 255}, addr \in AddrSamples, x \in (0 .. MaxBlock) \cup {15},
      yn \in {<<3, 3>>, <<5, 5>>, <<6, 5>>} }

\* LD Vx, a; LD F, Vx
FontGames ==
  { Image(<<Word(6, x, 0, 0) + a, Word(15, x, 2, 9)>>) :
      x \in RegSamples, a \in {0, 15, 51, 52, 255} }

\* LD V0, v; LD DT, V0; LD V1, w; LD ST, V1; JP 0x208
TimerGames ==
  { Image(<<Word(6, 0, 0, 0) + v, Word(15, 0, 1, 5), Word(6, 1, 0, 0) + w,
            Word(15, 1, 1, 8), Word(1, 2, 0, 8)>>) :
      v \in {0, MaxTimer}, w \in {0, MaxTimer} }

\* LD V0, 0xFF; LD I, 0xFFF; LD [I], V0; LD I, 0xFFF; DRW V0, V0, n:
\* a sprite whose first row is the last byte of memory.
EdgeDrawGames ==
  { Image(<<Word(6, 0, 15, 15), Word(10, 15, 15, 15), Word(15, 0, 5, 5),
            Word(10, 15, 15, 15), Word(13, 0, 0, n)>>) : n \in 1 .. MaxRows + 1 }

\* Programs that leave the address space: JP 0xFFF; LD V0, 0xFF; JP V0, 0xFFF;
\* and LD V0, 0xFF; LD I, 0xFFF; ADD I, V0; <Fx33 | Fx55 | Fx65 | DRW>.
FarGames ==
  { Image(<<Word(1, 15, 15, 15)>>),
    Image(<<Word(6, 0, 15, 15), Word(11, 15, 15, 15)>>) }
  \cup
  { Image(<<Word(6, 0, 15, 15), Word(10, 15, 15, 15), Word(15, 0, 1, 14), w>>) :
      w \in {Word(15, 0, 3, 3), Word(15, 0, 5, 5), Word(15, 0, 6, 5),
             Word(13, 0, 0, 1)} }

\* CALL 0x200 (a call of itself, for ever deeper), and RET on a fresh stack.
StackGames == { Image(<<Word(2, 2, 0, 0)>>), Image(<<Word(0, 0, 14, 14)>>) }

\* A call nested in a call: CALL 0x206; JP 0x202; (a word never executed);
\* 0x206: CALL 0x20A; RET; 0x20A: RET.  And one subroutine called twice:
\* CALL 0x206; CALL 0x206; JP 0x204; 0x206: RET.
CallGames ==
  { Image(<<Word(2, 2, 0, 6), Word(1, 2, 0, 2), 0, Word(2, 2, 0, 10),
            Word(0, 0, 14, 14), Word(0, 0, 14, 14)>>),
    Image(<<Word(2, 2, 0, 6), Word(2, 2, 0, 6), Word(1, 2, 0, 4),
            Word(0, 0, 14, 14)>>) }

\* One instruction word, in and around every family whose last nibbles
\* select the operation.
WordSamples ==
  { Word(ab[1], ab[2], c, d) :
      ab \in {<<0, 0>>, <<0, 1>>, <<14, 1>>, <<15, 1>>},
      c \in {0, 1, 2, 3, 5, 6, 9, 10, 14},
      d \in 0 .. 15 }
  \cup
  { Word(a, 1, c, d) : a \in {5, 8, 9}, c \in {0, 1}, d \in 0 .. 15 }
WordGames == { Image(<<w>>) : w \in WordSamples }

Games ==
  AluGames \cup ShiftGames \cup KeyGames \cup DrawGames \cup BlockGames \cup FontGames \cup TimerGames \cup EdgeDrawGames
    \cup FarGames \cup StackGames \cup CallGames \cup WordGames

(***************************************************************************)
(* The specification.                                                      *)
(***************************************************************************)
Install(m) ==
  /\ memory' = m.memory
  /\ V' = m.V
  /\ I' = m.I
  /\ PC' = m.PC
  /\ delay' = m.delay
  /\ sound' = m.sound
  /\ SP' = m.SP
  /\ stack' = m.stack
  /\ gfx' = m.gfx
  /\ keyboard' = m.keyboard
  /\ fault' = m.fault

\* The machine Chip8::new returns; the driver's audio device starts paused.
Init ==
  \E game \in Games :
    \E m \in {New(game)} :
        /\ memory = m.memory
        /\ V = m.V
        /\ I = m.I
        /\ PC = m.PC
        /\ delay = m.delay
        /\ sound = m.sound
        /\ SP = m.SP
        /\ stack = m.stack
        /\ gfx = m.gfx
        /\ keyboard = m.keyboard
        /\ fault = m.fault
        /\ tone = FALSE

\* One call of execute_instruction, with any byte from the random source,
\* in a build with or without overflow checks.
ExecuteInstruction ==
  /\ fault = "none"
  /\ \E m \in {execute_instruction(Machine, r, oc) :
                 r \in RandSamples, oc \in BOOLEAN} : Install(m)
  /\ UNCHANGED tone

\* One call of set_key by the driver.
SetKey ==
  /\ fault = "none"
  /\ \E m \in {set_key(Machine, key, state) :
                 key \in KeySamples, state \in BOOLEAN} : Install(m)
  /\ UNCHANGED tone

\* One call of decrement_delay by the driver.
DecrementDelay ==
  /\ fault = "none"
  /\ Install(decrement_delay(Machine))
  /\ UNCHANGED tone

\* One call of sound_tick by the driver, which resumes the audio device on
\* true and pauses it on false.
SoundTick ==
  /\ fault = "none"
  /\ \E mr \in {sound_tick(Machine)} :
       /\ Install(mr[1])
       /\ tone' = mr[2]

Next == ExecuteInstruction \/ SetKey \/ DecrementDelay \/ SoundTick

Spec == Init /\ [][Next]_vars

\* The game loop calls execute_instruction ten times in every iteration,
\* whatever the events were, for as long as the machine has not panicked;
\* key events, and with them set_key, come only when the user makes them.
\* The machines constructed from the programs that hold an Fx0A.
LdVxKInit ==
  /\ Init
  /\ \E a \in {GAME_ROM_OFFSET, GAME_ROM_OFFSET + 2} :
       LET op == Nibbles(ArrayGet(memory, a) * 256 + ArrayGet(memory, a + 1))
       IN  op[1] = 15 /\ op[3] = 0 /\ op[4] = 10

FairSpec == LdVxKInit /\ [][Next]_vars /\ WF_vars(ExecuteInstruction)

(***************************************************************************)
(* What the claims speak of.                                               *)
(***************************************************************************)
\* The machine is about to execute the instruction word at PC.
CanFetch == fault = "none" /\ FetchInRange(Machine)
Op == Nibbles(Fetch(Machine))
InstrAt(a) == ArrayGet(memory, a) * 256 + ArrayGet(memory, a + 1)
PressedKeys == {k \in 0 .. NumKeys - 1 : keyboard[k]}
Min(S) == CHOOSE k \in S : \A j \in S : k <= j

\* C1: SUB Vx, Vy (8xy5) leaves VF = 1 iff the original Vx >= Vy and VF = 0
\* otherwise, and Vx = (Vx - Vy) mod 256 when x is not 0xF.
C1_SubFlagIsNoBorrow ==
  [][ (CanFetch /\ Op[1] = 8 /\ Op[4] = 5 /\ ExecuteInstruction) =>
        /\ V'[15] = (IF V[Op[2]] >= V[Op[3]] THEN 1 ELSE 0)
        /\ Op[2] # 15 => V'[Op[2]] = (V[Op[2]] - V[Op[3]] + U8) % U8 ]_vars

\* Everything of the machine but the program counter and the fault.
data == <<memory, V, I, delay, sound, SP, stack, gfx, keyboard>>

\* The instruction at PC is Fx0A (LD Vx, K).
AtLdVxK == CanFetch /\ Op[1] = 15 /\ Op[3] = 0 /\ Op[4] = 10

\* C2: while the instruction at PC is Fx0A and no key is pressed, a call of
\* execute_instruction changes nothing: PC, registers, I, memory, stack, SP,
\* timers, framebuffer and key state are as before the call, so that any
\* number of such calls leaves the machine where it was.
C2_StallChangesNothing ==
  [][ (AtLdVxK /\ PressedKeys = {} /\ ExecuteInstruction) =>
        UNCHANGED <<data, PC, fault>> ]_vars

\* LD Vx, 0xAA has executed and the machine stands on LD Vx, K with no key
\* pressed: every call made here is the stall, and Vx is still 0xAA.
C2_Witness ==
  /\ AtLdVxK /\ PressedKeys = {}
  /\ PC = GAME_ROM_OFFSET + 2
  /\ V[Op[2]] = 170

\* C3: Fx0A executed with some key pressed advances PC by 2 and stores in
\* Vx the index of the lowest-indexed pressed key.
C3_LowestPressedKeyStored ==
  [][ (AtLdVxK /\ PressedKeys # {} /\ ExecuteInstruction) =>
        /\ PC' = PC + 2
        /\ V'[Op[2]] = Min(PressedKeys) ]_vars

\* The sprite Dxyn at PC would draw: its origin as the instruction reads it
\* (after it cleared VF) and the set of <<xl, yl>> whose sprite bit is set.
AtDrw == CanFetch /\ Op[1] = 13
DrwOrigin ==
  << IF Op[2] = 15 THEN 0 ELSE V[Op[2]], IF Op[3] = 15 THEN 0 ELSE V[Op[3]] >>
SpriteBits ==
  { b \in (0 .. 7) \X (0 .. Op[4] - 1) :
      Bit(ArrayGet(memory, I + b[2]), 7 - b[1]) = 1 }

\* The cells the sprite's set bits fall on when X and Y wrap independently.
C4_Cells ==
  { ((DrwOrigin[2] + b[2]) % SCREEN_HEIGHT) * SCREEN_WIDTH
      + ((DrwOrigin[1] + b[1]) % SCREEN_WIDTH) : b \in SpriteBits }

\* C4: Dxyn XORs the sprite bit of column xl and row yl into the cell at
\* column (Vx + xl) mod 64 and row (Vy + yl) mod 32: X and Y wrap
\* independently, a row that crosses the right edge continues at column 0 of
\* the same row, and no other cell changes.
C4_DrawWrapsEachAxis ==
  [][ (AtDrw /\ fault' = "none" /\ ExecuteInstruction) =>
        \A c \in DOMAIN gfx \cup DOMAIN gfx' \cup C4_Cells :
          ArrayGet(gfx', c) =
            BitXor(ArrayGet(gfx, c), IF c \in C4_Cells THEN 1 ELSE 0) ]_vars

\* Two calls of execute_instruction in a row from the present state, with
\* nothing in between: the machine after the first and after the second.
\* (A draw takes no random byte, and the sum I + yl cannot overflow in a draw
\* that has not panicked on its first row, so the build does not matter.)
AfterOne == execute_instruction(Machine, 0, TRUE)
AfterTwo == execute_instruction(AfterOne, 0, TRUE)
\* The instruction at PC is a Dxyn and the one behind it is the same Dxyn,
\* and neither of the two draws panics.
AtDoubleDrw ==
  /\ AtDrw
  /\ PC + 3 < MemorySize
  /\ InstrAt(PC + 2) = InstrAt(PC)
  /\ AfterTwo.fault = "none"

InOpcodeTable(w) ==
  LET op == Nibbles(w)
  IN  \/ op = <<0, 0, 14, 0>>
      \/ op = <<0, 0, 14, 14>>
      \/ op[1] \in {1, 2, 3, 4, 6, 7, 10, 11, 12, 13}
      \/ op[1] \in {5, 9} /\ op[4] = 0
      \/ op[1] = 8 /\ op[4] \in (0 .. 8) \cup {14}
      \/ op[1] = 14 /\ <<op[3], op[4]>> \in {<<9, 14>>, <<10, 1>>}
      \/ op[1] = 15 /\ <<op[3], op[4]>> \in
           {<<0, 7>>, <<0, 10>>, <<1, 5>>, <<1, 8>>, <<1, 14>>, <<2, 9>>,
            <<3, 3>>, <<5, 5>>, <<6, 5>>}

\* C6: an instruction word that matches no row of the opcode table ends
\* execute_instruction in the decode fault: it is not executed as a no-op or
\* as another instruction (nothing but the already advanced PC differs), and
\* the machine does not go on to the next instruction.
C6_UnknownOpcodeFaults ==
  [][ /\ (CanFetch /\ ~InOpcodeTable(Fetch(Machine)) /\ ExecuteInstruction) =>
           fault' = "decode" /\ UNCHANGED data
      /\ fault = "decode" => UNCHANGED vars ]_vars

\* The unknown word 0x0123 has been fetched at 0x200 and has faulted.
C6_Witness ==
  /\ fault = "decode"
  /\ InstrAt(GAME_ROM_OFFSET) = Word(0, 1, 2, 3)
  /\ PC = GAME_ROM_OFFSET + 2

\* The instruction at PC is Dxyn, Fx33, Fx55 or Fx65.
AtMemoryInstruction ==
  /\ CanFetch
  /\ \/ Op[1] = 13
     \/ Op[1] = 15 /\ <<Op[3], Op[4]>> \in {<<3, 3>>, <<5, 5>>, <<6, 5>>}

\* C7: an instruction that faults on an out-of-range memory access (Fx33,
\* Fx55, Fx65 or Dxyn reaching past address 4095) commits nothing: memory,
\* the registers including VF, I and the framebuffer are as before it, no
\* instruction is partially executed.
C7_MemoryFaultCommitsNothing ==
  [][ (AtMemoryInstruction /\ fault' = "memory" /\ ExecuteInstruction) =>
        UNCHANGED <<memory, V, I, gfx>> ]_vars

\* C8: the stack pointer is within 0..16 in every reachable state, the
\* states in which a CALL on a full stack or a RET on an empty one has
\* faulted included: SP never wraps.
C8_StackPointerInRange == SP \in 0 .. StackSize

\* C9: every address an instruction uses to access memory is within
\* 0..4095: the fetch addresses PC and PC + 1 of a machine that can be
\* called, and the I-based addresses of Dxyn, Fx33, Fx55 and Fx65, so that no
\* call indexes memory out of bounds (the "memory" fault).
C9_AddressesInRange ==
  /\ fault # "memory"
  /\ fault = "none" => FetchInRange(Machine)

\* C10: ADD Vx, Vy (8xy4) leaves VF = 1 iff the unsigned sum of the two
\* original register values exceeds 255 and VF = 0 otherwise, and Vx = the
\* sum modulo 256 when x is not 0xF.
C10_AddFlagIsCarry ==
  [][ (CanFetch /\ Op[1] = 8 /\ Op[4] = 4 /\ ExecuteInstruction) =>
        /\ V'[15] = (IF V[Op[2]] + V[Op[3]] > 255 THEN 1 ELSE 0)
        /\ Op[2] # 15 => V'[Op[2]] = (V[Op[2]] + V[Op[3]]) % U8 ]_vars

\* LD V0, 0xFF; LD V1, 1; ADD V0, V1 has executed: V0 wrapped to 0, VF = 1.
C10_Witness ==
  /\ fault = "none"
  /\ InstrAt(GAME_ROM_OFFSET) = Word(6, 0, 15, 15)
  /\ InstrAt(GAME_ROM_OFFSET + 2) = Word(6, 1, 0, 1)
  /\ InstrAt(GAME_ROM_OFFSET + 4) = Word(8, 0, 1, 4)
  /\ PC = GAME_ROM_OFFSET + 6
  /\ V[0] = 0 /\ V[1] = 1 /\ V[15] = 1

\* C11: SUBN Vx, Vy (8xy7) leaves VF = 1 iff the original Vy >= Vx and VF = 0
\* otherwise, and Vx = (Vy - Vx) mod 256 when x is not 0xF.
C11_SubnFlagIsNoBorrow ==
  [][ (CanFetch /\ Op[1] = 8 /\ Op[4] = 7 /\ ExecuteInstruction) =>
        /\ V'[15] = (IF V[Op[3]] >= V[Op[2]] THEN 1 ELSE 0)
        /\ Op[2] # 15 => V'[Op[2]] = (V[Op[3]] - V[Op[2]] + U8) % U8 ]_vars

\* C12: the shifts read register y as it was before the instruction: for
\* every x other than 0xF and every y (0xF included), after SHR Vx, Vy
\* (8xy6) Vx = (old Vy) >> 1 and VF = bit 0 of the old Vy, and after SHL Vx, Vy
\* (8xyE) Vx = ((old Vy) << 1) mod 256 and VF = bit 7 of the old Vy.
C12_ShiftsReadOldVy ==
  [][ (CanFetch /\ Op[1] = 8 /\ Op[4] \in {6, 14} /\ Op[2] # 15
         /\ ExecuteInstruction) =>
        IF Op[4] = 6
          THEN V'[Op[2]] = V[Op[3]] \div 2 /\ V'[15] = V[Op[3]] % 2
          ELSE V'[Op[2]] = (V[Op[3]] * 2) % U8 /\ V'[15] = V[Op[3]] \div 128
    ]_vars

\* The instruction at PC is Fx55 or Fx65 and the range I .. I + x lies inside
\* memory.
AtBlockCopy ==
  /\ CanFetch
  /\ Op[1] = 15 /\ <<Op[3], Op[4]>> \in {<<5, 5>>, <<6, 5>>}
  /\ I + Op[2] < MemorySize

\* C13: for every x, Fx55 copies V0..Vx to memory[I .. I + x] and leaves all
\* registers (and every other byte of memory) unchanged, Fx65 copies
\* memory[I .. I + x] to V0..Vx and leaves memory (and every other register)
\* unchanged, and both leave I = old I + x + 1, whenever the whole range
\* I .. I + x lies inside memory.
C13_BlockCopyAdvancesI ==
  [][ (AtBlockCopy /\ ExecuteInstruction) =>
        /\ fault' = "none"
        /\ I' = I + Op[2] + 1
        /\ IF Op[3] = 5
             THEN /\ V' = V
                  /\ \A a \in DOMAIN memory \cup DOMAIN memory'
                                \cup (I .. I + Op[2]) :
                       ArrayGet(memory', a) =
                         IF a \in I .. I + Op[2] THEN V[a - I]
                         ELSE ArrayGet(memory, a)
             ELSE /\ memory' = memory
                  /\ \A i \in 0 .. NumRegisters - 1 :
                       V'[i] = IF i <= Op[2] THEN ArrayGet(memory, I + i)
                               ELSE V[i] ]_vars

\* LD V0, 157; LD V1, 9; LD I, 0x300; LD [I], V1 has executed: the two
\* registers are in memory at 0x300 and 0x301 and I is 0x302.
C13_Witness ==
  /\ fault = "none"
  /\ InstrAt(GAME_ROM_OFFSET + 6) = Word(15, 1, 5, 5)
  /\ PC = GAME_ROM_OFFSET + 8
  /\ V[0] = 157 /\ V[1] = 9
  /\ ArrayGet(memory, 768) = 157 /\ ArrayGet(memory, 769) = 9
  /\ I = 770

\* C14: for every byte value of Vx, Fx29 sets I to exactly Vx * 5 as a
\* 16-bit value (Vx = 52 gives I = 260), without fault and without
\* truncating the product to 8 bits.
C14_FontAddressIsFiveTimesVx ==
  [][ (CanFetch /\ Op[1] = 15 /\ Op[3] = 2 /\ Op[4] = 9
         /\ ExecuteInstruction) =>
        fault' = "none" /\ I' = V[Op[2]] * 5 ]_vars

\* C15: for every value v in Vx and every I with I + 2 inside memory, Fx33
\* writes the hundreds, tens and ones digits of v to memory[I], memory[I + 1]
\* and memory[I + 2] (each digit in 0..9, 100 * a + 10 * b + c = v; 157
\* gives 1, 5, 7) and changes no other byte of memory, no register and not I.
C15_BcdDigits ==
  [][ (CanFetch /\ Op[1] = 15 /\ Op[3] = 3 /\ Op[4] = 3
         /\ I + 2 < MemorySize /\ ExecuteInstruction) =>
        /\ fault' = "none"
        /\ \A i \in 0 .. 2 : ArrayGet(memory', I + i) \in 0 .. 9
        /\ 100 * ArrayGet(memory', I) + 10 * ArrayGet(memory', I + 1)
              + ArrayGet(memory', I + 2) = V[Op[2]]
        /\ \A a \in (DOMAIN memory \cup DOMAIN memory') \ (I .. I + 2) :
             ArrayGet(memory', a) = ArrayGet(memory, a)
        /\ V' = V
        /\ I' = I ]_vars

\* LD V0, 157; LD V1, 9; LD I, 0x300; LD B, V0 has executed: the digits
\* 1, 5, 7 are in memory at 0x300 .. 0x302.
C15_Witness ==
  /\ fault = "none"
  /\ InstrAt(GAME_ROM_OFFSET + 6) = Word(15, 0, 3, 3)
  /\ PC = GAME_ROM_OFFSET + 8
  /\ V[0] = 157 /\ I = 768
  /\ ArrayGet(memory, 768) = 1
  /\ ArrayGet(memory, 769) = 5
  /\ ArrayGet(memory, 770) = 7

\* The machine after k calls of sound_tick in a row.
RECURSIVE AfterTicks(_, _)
AfterTicks(m, k) == IF k = 0 THEN m ELSE AfterTicks(sound_tick(m)[1], k - 1)

\* The instruction at PC is Fx18 (LD ST, Vx).
AtLdStVx == CanFetch /\ Op[1] = 15 /\ Op[3] = 1 /\ Op[4] = 8

\* Once Fx18 has set the sound timer to v, the first v calls of sound_tick
\* return true and count it down to 0, and the calls after them return
\* false and leave it 0.
C16_CountDown ==
  AtLdStVx =>
    /\ AfterOne.sound = V[Op[2]]
    /\ \A k \in 1 .. V[Op[2]] + 2 :
         LET r == sound_tick(AfterTicks(AfterOne, k - 1))
         IN  /\ r[2] = (k <= V[Op[2]])
             /\ r[1].sound = (IF k <= V[Op[2]] THEN V[Op[2]] - k ELSE 0)
             /\ r[1].delay = AfterOne.delay

\* C16: sound_tick returns true exactly when the sound timer is non-zero
\* before the call, and then decrements it by 1; otherwise it returns false
\* and leaves it 0: after Fx18 set the timer to v the next v calls return
\* true and every later call false, the timer staying 0 (it never wraps).
\* decrement_delay does the same to the delay timer, and neither call
\* changes the other timer.
C16_TimersCountDownToZero ==
  /\ []C16_CountDown
  /\ [][ /\ SoundTick =>
             /\ tone' = (sound > 0)
             /\ sound' = (IF sound > 0 THEN sound - 1 ELSE 0)
             /\ delay' = delay
         /\ DecrementDelay =>
             /\ delay' = (IF delay > 0 THEN delay - 1 ELSE 0)
             /\ sound' = sound ]_vars

\* LD ST, V1 has set the sound timer to MaxTimer, MaxTimer calls of
\* sound_tick have counted it down to 0 and a further call has returned
\* false, while the delay timer still holds the MaxTimer of LD DT, V0.
C16_Witness ==
  /\ fault = "none"
  /\ InstrAt(GAME_ROM_OFFSET + 6) = Word(15, 1, 1, 8)
  /\ PC = GAME_ROM_OFFSET + 8
  /\ V[0] = MaxTimer /\ V[1] = MaxTimer
  /\ delay = MaxTimer
  /\ sound = 0
  /\ tone = FALSE

\* What set_key does from the present state, for every key index a u8 can
\* hold that the driver passes or could pass.
C17_SetKeyCall ==
  fault = "none" =>
    \A key \in (0 .. NumKeys + 1) \cup {U8 - 1}, state \in BOOLEAN :
      set_key(Machine, key, state) =
        IF key < NumKeys
          THEN [Machine EXCEPT
                  !.keyboard = [k \in 0 .. NumKeys - 1 |->
                                  IF k = key THEN state ELSE keyboard[k]]]
          ELSE Machine

\* C17: set_key(key, state) with key in 0..15 sets exactly that key's entry
\* to state and leaves the other 15 entries unchanged; with key >= 16 (the
\* driver passes 16 for an unmapped key) it does not fault and leaves the
\* whole machine state unchanged.
C17_SetKeyTouchesOneKey ==
  /\ []C17_SetKeyCall
  /\ [][ SetKey =>
           /\ UNCHANGED <<memory, V, I, PC, delay, sound, SP, stack, gfx>>
           /\ fault' = "none"
           /\ \E key \in 0 .. NumKeys - 1 :
                \A k \in (0 .. NumKeys - 1) \ {key} :
                  keyboard'[k] = keyboard[k] ]_vars

\* The driver has pressed key 7 and nothing else has happened: the other
\* keys are up and the machine is as constructed.
C17_Witness ==
  /\ fault = "none"
  /\ PressedKeys = {7}
  /\ PC = GAME_ROM_OFFSET
  /\ V = [i \in 0 .. NumRegisters - 1 |-> 0]
  /\ InstrAt(GAME_ROM_OFFSET) = Word(15, 1, 0, 10)

\* C18: in every reachable state every one of the 2048 framebuffer cells
\* holds 0 or 1 (the cells gfx does not list hold 0).
C18_CellsAreBits ==
  /\ DOMAIN gfx \subseteq 0 .. GfxSize - 1
  /\ \A c \in DOMAIN gfx : gfx[c] \in {0, 1}

\* A font glyph has been drawn and a sprite over it: cells are on, and the
\* second draw met a cell that was on (VF = 1) and turned it off again.
C18_Witness ==
  /\ fault = "none"
  /\ PC = GAME_ROM_OFFSET + 10
  /\ Nibbles(InstrAt(GAME_ROM_OFFSET + 4)) = <<13, 0, 1, 5>>
  /\ Nibbles(InstrAt(GAME_ROM_OFFSET + 8)) = <<13, 0, 1, 2>>
  /\ V[15] = 1
  /\ \E c \in DOMAIN gfx : gfx[c] = 1
  /\ \E c \in 0 .. 7 : ArrayGet(gfx, V[1] * SCREEN_WIDTH + V[0] + c) = 0

\* The instruction at PC is Fx15 (LD DT, Vx).
AtLdDtVx == CanFetch /\ Op[1] = 15 /\ Op[3] = 1 /\ Op[4] = 5

\* C19: execute_instruction never changes the key state and never
\* decrements a timer: it changes delay only when the instruction is Fx15
\* (delay := Vx) and sound only when it is Fx18 (sound := Vx); every other
\* instruction leaves both timers unchanged.
C19_ExecuteLeavesKeysAndTimers ==
  [][ /\ (keyboard' # keyboard /\ ExecuteInstruction) => FALSE
      /\ (delay' # delay /\ ExecuteInstruction) => AtLdDtVx
      /\ (sound' # sound /\ ExecuteInstruction) => AtLdStVx
      /\ (AtLdDtVx /\ ExecuteInstruction) => delay' = V[Op[2]]
      /\ (AtLdStVx /\ ExecuteInstruction) => sound' = V[Op[2]] ]_vars

\* LD V0, MaxTimer; LD DT, V0 has executed with key 7 held down and the
\* sound timer untouched: delay is MaxTimer, the key is still down.
C19_Witness ==
  /\ fault = "none"
  /\ InstrAt(GAME_ROM_OFFSET + 2) = Word(15, 0, 1, 5)
  /\ PC = GAME_ROM_OFFSET + 4
  /\ V[0] = MaxTimer /\ delay = MaxTimer /\ sound = 0
  /\ PressedKeys = {7}

\* The instruction at PC is CALL nnn; it is RET.
AtCall == CanFetch /\ Op[1] = 2
AtRet == CanFetch /\ Op = <<0, 0, 14, 14>>

\* A CALL executed from the present state and a RET executed right at its
\* target: PC is behind the CALL and SP is what it was.
C20_CallThenRet ==
  (AtCall /\ SP < StackSize) =>
    LET called == AfterOne
        returned == Dispatch([called EXCEPT !.PC = called.PC + 2],
                             Word(0, 0, 14, 14), 0, TRUE)
    IN  /\ called.PC = Fetch(Machine) % 4096 /\ called.SP = SP + 1
        /\ returned.fault = "none"
        /\ returned.PC = PC + 2 /\ returned.SP = SP

\* C20: a CALL nnn fetched at address a with fewer than 16 return addresses
\* on the stack makes PC nnn and SP one more, and its matching RET (after
\* any balanced nested CALL/RET pairs) makes PC a + 2 and SP what it was
\* before the CALL: a CALL writes a + 2 into the entry at SP, a RET on a
\* non-empty stack takes PC from the entry at SP - 1 and leaves the entries
\* alone, and nothing but a CALL or a RET touches the stack or SP.
C20_CallRetIsLifo ==
  /\ []C20_CallThenRet
  /\ [][ /\ (AtCall /\ SP < StackSize /\ ExecuteInstruction) =>
             /\ fault' = "none"
             /\ PC' = Fetch(Machine) % 4096
             /\ SP' = SP + 1
             /\ stack' = [stack EXCEPT ![SP] = PC + 2]
         /\ (AtRet /\ SP > 0 /\ ExecuteInstruction) =>
             /\ fault' = "none"
             /\ PC' = stack[SP - 1]
             /\ SP' = SP - 1
             /\ stack' = stack
         /\ (stack' # stack \/ SP' # SP) =>
             (AtCall \/ AtRet) /\ ExecuteInstruction ]_vars

\* CALL 0x206 at 0x200, the nested CALL 0x20A at 0x206 and both RETs have
\* executed: PC is 0x202, behind the first CALL, and the stack is empty
\* again, the two return addresses still in its entries.
C20_Witness ==
  /\ fault = "none"
  /\ InstrAt(GAME_ROM_OFFSET) = Word(2, 2, 0, 6)
  /\ InstrAt(GAME_ROM_OFFSET + 6) = Word(2, 2, 0, 10)
  /\ PC = GAME_ROM_OFFSET + 2
  /\ SP = 0
  /\ stack[0] = GAME_ROM_OFFSET + 2 /\ stack[1] = GAME_ROM_OFFSET + 8

\* The addresses at which the programs of the model hold an Fx0A.
LdVxKAddresses == {GAME_ROM_OFFSET, GAME_ROM_OFFSET + 2}

\* The stall on the Fx0A at address a has ended: PC is past the instruction
\* and its register x holds the index of a key that is pressed.
C21_Resolved(a) ==
  /\ fault = "none"
  /\ PC = a + 2
  /\ V[Nibbles(InstrAt(a))[2]] \in PressedKeys

\* C21: the Fx0A block eventually resolves.  A call of execute_instruction
\* made while the machine stands on Fx0A with a key pressed ends the stall:
\* PC moves past the Fx0A and register x holds the index of a pressed key,
\* so the machine never remains stalled across a call made while a key is
\* pressed; and with the driver calling execute_instruction again and again,
\* a machine on Fx0A with a key pressed comes to the end of the stall unless
\* the driver releases every key before the next call.
C21_BlockResolves ==
  /\ [][ (AtLdVxK /\ PressedKeys # {} /\ ExecuteInstruction) =>
           /\ fault' = "none"
           /\ PC' = PC + 2
           /\ V'[Op[2]] \in PressedKeys
           /\ keyboard' = keyboard ]_vars
  /\ \A a \in LdVxKAddresses :
       (AtLdVxK /\ PC = a /\ PressedKeys # {})
         ~> (C21_Resolved(a) \/ (PC = a /\ PressedKeys = {}))

\* LD V0, 0xAA; LD V0, K has stalled and then executed with the keys 7 and
\* 15 down: PC is past it and V0 holds 15, a key that is pressed.
C21_Witness ==
  /\ InstrAt(GAME_ROM_OFFSET) = Word(6, 0, 10, 10)
  /\ InstrAt(GAME_ROM_OFFSET + 2) = Word(15, 0, 0, 10)
  /\ C21_Resolved(GAME_ROM_OFFSET + 2)
  /\ PressedKeys = {7, 15}
  /\ V[0] = 15

====
